---- MODULE Spec2Model ----
(***************************************************************************)
(* Model of fastlayer/native/cpp_hot.cpp: dot_cpp, the dot product of two  *)
(* float64 buffers, as exposed through pybind11.                           *)
(*                                                                         *)
(* A call is modelled step by step (size check, locals, loop, return) and  *)
(* also as the operator dot_cpp, which runs the same statements.           *)
(*                                                                         *)
(* Doubles.  The values a run can meet are drawn from a subset of IEEE-754 *)
(* binary64 that is closed under the + and * the loop performs and on      *)
(* which both operations are modelled exactly (round-to-nearest-even):     *)
(*   fin n   an integer n, |n| far below 2^53, so sums and products of     *)
(*           such values are exact;                                        *)
(*   big s   s * 2^1023, the largest power of two: adding an integer to it *)
(*           rounds back to it, doubling it overflows;                     *)
(*   inf s   s * infinity;                                                 *)
(*   nan     a NaN (payloads are not distinguished).                       *)
(* The sign of a zero is not tracked: no operation of the loop can observe *)
(* it (there is no division), and -0.0 == 0.0.                             *)
(*                                                                         *)
(* Buffers.  a and b are the element sequences that request() exposes as   *)
(* (ptr, size): size = Len, ptr[i] = element i + 1 of the sequence.  The   *)
(* code indexes ptr directly and never consults buffer_info::strides; the  *)
(* model therefore covers the buffers for which ptr[i] is element i, the   *)
(* contiguous one-dimensional ones.                                        *)
(***************************************************************************)
EXTENDS Integers, Sequences, FiniteSets, TLC

VARIABLES a, b, pc, i, s, out, reads

vars == <<a, b, pc, i, s, out, reads>>

(* ------------------------------ bounds -------------------------------- *)

MaxLen == 3

(* ------------------------------ doubles ------------------------------- *)

Fin(n) == [k |-> "fin", v |-> n]
Big(sg) == [k |-> "big", v |-> sg]
Inf(sg) == [k |-> "inf", v |-> sg]
NaN == [k |-> "nan", v |-> 0]
Zero == Fin(0)

Sgn(n) == IF n > 0 THEN 1 ELSE IF n < 0 THEN -1 ELSE 0

SignOf(x) == IF x.k = "fin" THEN Sgn(x.v) ELSE x.v

IsFinite(x) == x.k \in {"fin", "big"}

\* 2^1023 * n for an integer n: 0, +-2^1023, or overflow to +-infinity
BigTimes(sg, n) ==
    IF n = 0 THEN Zero
    ELSE IF n \in {1, -1} THEN Big(sg * n)
    ELSE Inf(sg * Sgn(n))

\* x * y on doubles
FMul(x, y) ==
    IF x.k = "nan" \/ y.k = "nan" THEN NaN
    ELSE IF x.k = "inf" \/ y.k = "inf"
         THEN IF SignOf(x) = 0 \/ SignOf(y) = 0 THEN NaN
              ELSE Inf(SignOf(x) * SignOf(y))
    ELSE IF x.k = "big" /\ y.k = "big" THEN Inf(x.v * y.v)
    ELSE IF x.k = "big" THEN BigTimes(x.v, y.v)
    ELSE IF y.k = "big" THEN BigTimes(y.v, x.v)
    ELSE Fin(x.v * y.v)

\* x + y on doubles
FAdd(x, y) ==
    IF x.k = "nan" \/ y.k = "nan" THEN NaN
    ELSE IF x.k = "inf" /\ y.k = "inf"
         THEN IF x.v = y.v THEN x ELSE NaN
    ELSE IF x.k = "inf" THEN x
    ELSE IF y.k = "inf" THEN y
    ELSE IF x.k = "big" /\ y.k = "big"
         THEN IF x.v = y.v THEN Inf(x.v) ELSE Zero
    ELSE IF x.k = "big" THEN x
    ELSE IF y.k = "big" THEN y
    ELSE Fin(x.v + y.v)

\* x == y on doubles: a NaN compares unequal to everything, itself included
FEq(x, y) == x.k # "nan" /\ y.k # "nan" /\ x = y

(* ------------------------------ inputs -------------------------------- *)

Vals == {Fin(-1), Fin(0), Fin(1), Big(1), Inf(1)}

SeqsUpTo(S, n) == UNION {[1..m -> S] : m \in 0..n}

FinSeq(q) == [j \in 1..Len(q) |-> Fin(q[j])]

\* the calls the specification gives as examples
Examples ==
    { <<FinSeq(<<1, 2, 3>>), FinSeq(<<4, 5, 6>>)>>,
      <<FinSeq(<<1, -1>>), FinSeq(<<1, 1>>)>>,
      <<FinSeq(<<1, 2, 3>>), FinSeq(<<1, 2, 3, 4>>)>> }

Inputs == (SeqsUpTo(Vals, MaxLen) \X SeqsUpTo(Vals, MaxLen)) \cup Examples

(* --------------------------- dot_cpp, by line ------------------------- *)

Unset == [k |-> "unset", v |-> 0]
NoOutcome == [kind |-> "none", val |-> Unset]
Thrown == [kind |-> "err", val |-> Unset]
Returned(x) == [kind |-> "ok", val |-> x]

\* line 7: buf.size
Size(buf) == Len(buf)

SizeMismatchOneSided(bufA, bufB) == Size(bufA) > Size(bufB)

\* line 8: bufA.size != bufB.size
SizeMismatch(bufA, bufB) == Size(bufA) # Size(bufB)

InitAccOne == Fin(1)

\* line 11: double s = 0.0
InitAcc == Zero

LoopCondInclusive(j, bufA) == j <= Size(bufA)

\* line 12: i < bufA.size
LoopCond(j, bufA) == j < Size(bufA)

\* line 13: ptr[j]; a read past the buffer is undefined and may yield anything
Load(buf, j) == IF j >= 0 /\ j < Size(buf) THEN {buf[j + 1]} ELSE Vals \cup {NaN}

AccumulateOverwrite(acc, x, y) == FMul(x, y)

AccumulateSum(acc, x, y) == FAdd(acc, FAdd(x, y))

\* line 13: s += x * y
Accumulate(acc, x, y) == FAdd(acc, FMul(x, y))

Init ==
    /\ \E p \in Inputs : a = p[1] /\ b = p[2]
    /\ pc = "check"
    /\ i = 0
    /\ s = Unset
    /\ out = NoOutcome
    /\ reads = <<>>

\* line 8, mismatch: throw std::runtime_error
Throw ==
    /\ pc = "check"
    /\ SizeMismatch(a, b)
    /\ pc' = "error"
    /\ out' = Thrown
    /\ UNCHANGED <<a, b, i, s, reads>>

\* lines 8-12, sizes agree: s = 0.0, i = 0
Begin ==
    /\ pc = "check"
    /\ ~SizeMismatch(a, b)
    /\ s' = InitAcc
    /\ i' = 0
    /\ pc' = "loop"
    /\ UNCHANGED <<a, b, out, reads>>

\* the loop walking the buffers from the last element to the first
LoopBodyReversed ==
    /\ pc = "loop"
    /\ LoopCond(i, a)
    /\ \E x \in Load(a, Size(a) - 1 - i), y \in Load(b, Size(a) - 1 - i) :
           s' = Accumulate(s, x, y)
    /\ reads' = Append(reads, Size(a) - 1 - i)
    /\ i' = i + 1
    /\ UNCHANGED <<a, b, pc, out>>

\* the loop reading ptrA for both factors
LoopBodySquare ==
    /\ pc = "loop"
    /\ LoopCond(i, a)
    /\ \E x \in Load(a, i), y \in Load(a, i) : s' = Accumulate(s, x, y)
    /\ reads' = Append(reads, i)
    /\ i' = i + 1
    /\ UNCHANGED <<a, b, pc, out>>

\* the loop advancing by two
LoopBodyStride ==
    /\ pc = "loop"
    /\ LoopCond(i, a)
    /\ \E x \in Load(a, i), y \in Load(b, i) : s' = Accumulate(s, x, y)
    /\ reads' = Append(reads, i)
    /\ i' = i + 2
    /\ UNCHANGED <<a, b, pc, out>>

\* the loop storing each product back into ptrA
LoopBodyInPlace ==
    /\ pc = "loop"
    /\ LoopCond(i, a)
    /\ \E x \in Load(a, i), y \in Load(b, i) :
           /\ s' = Accumulate(s, x, y)
           /\ a' = [a EXCEPT ![i + 1] = FMul(x, y)]
    /\ reads' = Append(reads, i)
    /\ i' = i + 1
    /\ UNCHANGED <<b, pc, out>>

\* lines 12-14: one iteration of the loop
LoopBody ==
    /\ pc = "loop"
    /\ LoopCond(i, a)
    /\ \E x \in Load(a, i), y \in Load(b, i) : s' = Accumulate(s, x, y)
    /\ reads' = Append(reads, i)
    /\ i' = i + 1
    /\ UNCHANGED <<a, b, pc, out>>

\* lines 12, 15: the loop ends, return s
Return ==
    /\ pc = "loop"
    /\ ~LoopCond(i, a)
    /\ out' = Returned(s)
    /\ pc' = "done"
    /\ UNCHANGED <<a, b, i, s, reads>>

Next == Throw \/ Begin \/ LoopBody \/ Return

Spec == Init /\ [][Next]_vars

\* No guard of a step reads an element (SizeMismatch and LoopCond read sizes
\* only), so the runs to completion are explored over fewer element values:
\* a zero, a non-zero number and an infinity (whose product with zero is NaN).
ControlVals == {Fin(0), Fin(1), Inf(1)}

FairInit ==
    /\ a \in SeqsUpTo(ControlVals, MaxLen)
    /\ b \in SeqsUpTo(ControlVals, MaxLen)
    /\ pc = "check"
    /\ i = 0
    /\ s = Unset
    /\ out = NoOutcome
    /\ reads = <<>>

\* the call runs to its end: single-threaded, nothing to wait for
FairSpec == FairInit /\ [][Next]_vars /\ WF_vars(Next)

\* the whole call as a function of its arguments
RECURSIVE DotLoop(_, _, _, _)
DotLoop(bufA, bufB, j, acc) ==
    IF LoopCond(j, bufA)
    THEN DotLoop(bufA, bufB, j + 1, Accumulate(acc, bufA[j + 1], bufB[j + 1]))
    ELSE acc

dot_cpp(x, y) ==
    IF SizeMismatch(x, y) THEN Thrown ELSE Returned(DotLoop(x, y, 0, InitAcc))

(* ------------------------------ claims -------------------------------- *)

Terminal == pc \in {"done", "error"}

\* the reference reduction: ((0 + x1*y1) + x2*y2) + ... + xk*yk
RECURSIVE LeftSum(_, _, _)
LeftSum(x, y, n) ==
    IF n = 0 THEN Zero ELSE FAdd(LeftSum(x, y, n - 1), FMul(x[n], y[n]))

Indices(n) == [j \in 1..n |-> j - 1]

\* C1: a call on equal-length sequences returns the left-to-right reduction
\* starting from 0 of the products a[i]*b[i]; dot([1,2,3],[4,5,6]) = 32 and
\* dot([1,-1],[1,1]) = 0.
C1_LeftToRightReduction ==
    pc = "done" =>
        /\ out = Returned(LeftSum(a, b, Len(a)))
        /\ out = dot_cpp(a, b)
        /\ (a = FinSeq(<<1, 2, 3>>) /\ b = FinSeq(<<4, 5, 6>>)) => out.val = Fin(32)
        /\ (a = FinSeq(<<1, -1>>) /\ b = FinSeq(<<1, 1>>)) => out.val = Fin(0)

C1_Witness ==
    /\ pc = "done"
    /\ a = FinSeq(<<1, 2, 3>>)
    /\ b = FinSeq(<<4, 5, 6>>)
    /\ out = Returned(Fin(32))

\* C2: a call ends in the error exactly when the two lengths differ, and then
\* returns no number; with equal lengths it never ends in an error.
C2_ErrorIffLengthsDiffer ==
    /\ pc = "error" <=> out.kind = "err"
    /\ pc = "done" <=> out.kind = "ok"
    /\ Terminal => (out.kind = "err" <=> Len(a) # Len(b))
    /\ out.kind = "err" => out.val = Unset
    /\ Len(a) = Len(b) => pc # "error"

C2_Witness == pc = "error" /\ Len(a) = 3 /\ Len(b) = 4 /\ out = Thrown

\* C3: with both inputs empty the call returns 0.0 without an error and
\* without executing the loop body.
C3_EmptyInputs ==
    (Len(a) = 0 /\ Len(b) = 0) =>
        /\ pc # "error"
        /\ reads = <<>>
        /\ pc = "done" => (out.kind = "ok" /\ FEq(out.val, Zero))

C3_Witness == pc = "done" /\ a = <<>> /\ b = <<>> /\ out = Returned(Zero)

\* C9: whenever the loop index is k, the accumulator is the left-to-right sum
\* of the first k products; it is 0 at k = 0 and the returned value at k = n.
C9_LoopInvariant ==
    /\ pc = "loop" =>
           /\ 0 <= i /\ i <= Len(a)
           /\ s = LeftSum(a, b, i)
           /\ i = 0 => s = Zero
    /\ pc = "done" => (i = Len(a) /\ s = LeftSum(a, b, i) /\ out = Returned(s))

C9_Witness == pc = "loop" /\ i = 2 /\ Len(a) = 3 /\ s # Zero /\ s = LeftSum(a, b, 2)

\* C10: nothing is read before the length check has passed or in a call that
\* ends in the error, and every index read is within both sequences.
C10_ReadsInBounds ==
    /\ pc \in {"check", "error"} => reads = <<>>
    /\ \A n \in 1..Len(reads) :
           /\ 0 <= reads[n]
           /\ reads[n] < Len(a)
           /\ reads[n] < Len(b)

C10_Witness == pc = "done" /\ Len(reads) = 3 /\ reads[3] = 2 /\ Len(b) = 3

\* the outcome of the call with the arguments exchanged
Swapped == dot_cpp(b, a)

\* C4 as stated: for equal lengths dot(a, b) == dot(b, a) under the double
\* comparison, and for different lengths both orders end in the error.
C4_CommutativeAsStated ==
    Terminal =>
        IF Len(a) = Len(b)
        THEN out.kind = "ok" /\ Swapped.kind = "ok" /\ FEq(out.val, Swapped.val)
        ELSE out.kind = "err" /\ Swapped.kind = "err"

\* C4, amended: for equal lengths dot(a, b) and dot(b, a) either compare
\* equal or are both NaN, and for different lengths both orders end in the
\* error.
C4_CommutativeUpToNaN ==
    Terminal =>
        IF Len(a) = Len(b)
        THEN /\ out.kind = "ok" /\ Swapped.kind = "ok"
             /\ \/ FEq(out.val, Swapped.val)
                \/ out.val = NaN /\ Swapped.val = NaN
        ELSE out.kind = "err" /\ Swapped.kind = "err"

C4_Witness ==
    /\ pc = "done"
    /\ Len(a) = 3
    /\ a # b
    /\ out.val = Big(-1)
    /\ Swapped = out

ZerosLike(x) == [j \in 1..Len(x) |-> Zero]

\* C5 as stated: for every sequence a, whatever its elements,
\* dot(a, zeros_like(a)) == 0.0.
C5_ZeroVectorAsStated ==
    (pc = "done" /\ b = ZerosLike(a)) => FEq(out.val, Zero)

\* C5, amended: for every sequence a whose elements are all finite,
\* dot(a, zeros_like(a)) == 0.0.
C5_ZeroVectorFinite ==
    (pc = "done" /\ b = ZerosLike(a) /\ \A j \in 1..Len(a) : IsFinite(a[j]))
        => FEq(out.val, Zero)

C5_Witness ==
    /\ pc = "done"
    /\ b = ZerosLike(a)
    /\ a = <<Big(1), Fin(-1), Fin(1)>>
    /\ out = Returned(Zero)

\* the elementwise sum b + c
VecAdd(x, y) == [j \in 1..Len(x) |-> FAdd(x[j], y[j])]

IntVals == {x \in Vals : x.k = "fin"}

Linear(c) ==
    FEq(dot_cpp(a, VecAdd(b, c)).val, FAdd(out.val, dot_cpp(a, c).val))

\* C6 as stated: for all equal-length a, b, c,
\* dot(a, b + c) == dot(a, b) + dot(a, c).  (On the values of this model a
\* relative tolerance separates exactly what == separates: distinct small
\* integers, 2^1023, the infinities, NaN.)
C6_LinearAsStated ==
    pc = "done" => \A c \in [1..Len(b) -> Vals] : Linear(c)

\* C6, amended: for all equal-length a, b, c whose elements are integers
\* small enough that every product and sum formed is exactly representable,
\* dot(a, b + c) == dot(a, b) + dot(a, c) exactly.
C6_LinearOnExactIntegers ==
    (/\ pc = "done"
     /\ \A j \in 1..Len(a) : a[j].k = "fin" /\ b[j].k = "fin")
        => \A c \in [1..Len(b) -> IntVals] : Linear(c)

C6_Witness ==
    /\ pc = "done"
    /\ a = FinSeq(<<1, -1, 1>>)
    /\ b = FinSeq(<<1, 1, -1>>)
    /\ out = Returned(Fin(-1))
    /\ dot_cpp(a, VecAdd(b, FinSeq(<<1, -1, 1>>))) = Returned(Fin(2))

\* C7: no step of a call changes the contents or the length of either input;
\* only the accumulator, the loop index and the position in the code (with
\* the outcome and the record of reads) change.
C7_InputsUnchanged == [][a' = a /\ b' = b]_vars

C7_Witness == Terminal /\ i = Len(a) /\ Len(a) = 2 /\ a[1] # a[2]

\* C8: every call ends; with equal lengths of n the loop body has run exactly
\* n times, on the indices 0, 1, ..., n-1 in that order, and with different
\* lengths it has not run at all.
C8_TerminatesAfterOnePass ==
    /\ <>Terminal
    /\ [](pc = "done" => (Len(a) = Len(b) /\ reads = Indices(Len(a))))
    /\ [](pc = "error" => (Len(a) # Len(b) /\ reads = <<>>))
    /\ [](pc = "loop" => reads = Indices(i))

C8_Witness == pc = "done" /\ reads = <<0, 1, 2>> /\ i = 3 /\ out.val = NaN
====
